---- MODULE Spec2Model ----
(***************************************************************************)
(* Model of the AppMetrica LogsAPI loader's incremental scheduler          *)
(* (src/updater/scheduler.py), its update executor and snapshot swapper    *)
(* (src/updater/updates_controller.py) and the persisted progress record   *)
(* (src/state/state.py, src/state/json_serialization.py).                  *)
(*                                                                         *)
(* Time.  A datetime is an integer number of ticks of naive local time; a  *)
(* tick plays the role of the code's second (the finest step the marks     *)
(* keep once saved), an hour bucket is HOUR ticks long and a day is        *)
(* HOURS_PER_DAY hours long.  Python's None is the empty tuple <<>> and a  *)
(* present optional value x is <<x>>.                                      *)
(***************************************************************************)
EXTENDS Integers, Sequences, FiniteSets, TLC

VARIABLES
    tz,        \* local time offset of the process (local = UTC + tz), fixed per run
    sources,   \* SchedulingDefinition.date_required_sources, fixed per run
    now,       \* the wall clock, datetime.now()
    stored,    \* the State Store's persisted JSON document, <<>> when none exists
    state,     \* Scheduler._state
    gen,       \* the update_requests generator: its position and locals
    req,       \* the UpdateRequest the generator is suspended on (NoRequest: running)
    ctl,       \* UpdatesController.run: "run" inside _step, "sleep" before the backoff
    trace,     \* history: the requests yielded so far by the current pass
    hist,      \* history: what earlier steps did (read by the properties only)
    db,        \* the profile tables of the table store: latest and tmp
    lastSwap   \* history: the last _load_profiles call, <<>> before the first

vars == <<tz, sources, now, stored, state, gen, req, ctl, trace, hist, db, lastSwap>>

---------------------------------------------------------------------------
\* Scale and bounds of the model.

\* Ticks per hour bucket: offsets 0 .. HOUR-1, the last one being "59:59".
HOUR == 2
\* Hour buckets per day (the window starts at a day boundary).
HOURS_PER_DAY == 2
DAY == HOURS_PER_DAY * HOUR
\* The clock never passes MaxTime.
MaxTime == 8
\* A run makes at most MaxPasses calls of update_requests.
MaxPasses == 3

None == <<>>
Some(x) == <<x>>

---------------------------------------------------------------------------
\* Configuration handed to the Scheduler and read from settings.

\* Scheduler._app_ids
app_ids == <<"a1">>
\* SchedulingDefinition.date_ignored_sources
date_ignored_sources == <<"devices">>
\* The runs explored: the local time offset of the process and the list
\* date_required_sources is configured to.
Configs ==
    {[tz |-> 0, sources |-> <<>>],
     [tz |-> 0, sources |-> <<"events">>],
     [tz |-> 0, sources |-> <<"events", "sessions_starts">>],
     [tz |-> HOUR, sources |-> <<"events">>],
     [tz |-> 0 - HOUR, sources |-> <<"events">>]}
\* Scheduler._update_limit
UPDATE_LIMIT == HOUR
\* Scheduler._update_interval
UPDATE_INTERVAL == HOUR
\* Scheduler._fresh_limit
FRESH_LIMIT == HOUR
\* timedelta(hours=SAFE_LAG_HOURS)
SAFE_LAG == HOUR
\* PROFILE_UPDATE_INTERVAL * 3600
PROFILE_UPDATE_INTERVAL == 2 * HOUR
\* time.sleep(10) of the outer loop: the shortest step of the clock
BACKOFF == 1
\* Scheduler.ARCHIVED_HOUR = datetime(3000, 1, 1): far beyond every clock value
ARCHIVED_HOUR == 2000000000

\* UpdateRequest kinds
ARCHIVE == "archive"
LOAD_ONE_HOUR == "load_one_hour"
LOAD_HOUR_IGNORED == "load_hour_ignored"
LOAD_PROFILES == "load_profiles"

UpdateRequest(source, app_id, p_hour, update_type) ==
    [source |-> source, app_id |-> app_id, hour |-> p_hour, update_type |-> update_type]
NoRequest == UpdateRequest("", "", None, "none")

---------------------------------------------------------------------------
\* Progress model: state.py

\* AppIdState(app_id, date_updates): app_id is the key "<source>_<app_id>", kept
\* as the pair <<source, app_id>>; date_updates is the dict in insertion order.
AppIdState(app_id, date_updates) ==
    [app_id |-> app_id, date_updates |-> date_updates, last_profile_update |-> None]

\* State(last_update_time, app_id_states)
State(last_update_time, app_id_states) ==
    [last_update_time |-> last_update_time, app_id_states |-> app_id_states]

\* app_id.startswith('profiles_')
IsProfiles(app_id) == app_id[1] = "profiles"

\* dict.get(p_hour)
DictGet(du, p_hour) ==
    IF \E i \in 1..Len(du) : du[i].hour = p_hour
    THEN Some(du[CHOOSE i \in 1..Len(du) : du[i].hour = p_hour].at)
    ELSE None

\* dict[p_hour] = at: in place for a present key, appended otherwise
DictSet(du, p_hour, at) ==
    IF \E i \in 1..Len(du) : du[i].hour = p_hour
    THEN [i \in 1..Len(du) |-> IF du[i].hour = p_hour THEN [hour |-> p_hour, at |-> at] ELSE du[i]]
    ELSE Append(du, [hour |-> p_hour, at |-> at])

---------------------------------------------------------------------------
\* Persisted document: json_serialization.py

\* datetime.timestamp() of a naive datetime reads it as local time
Timestamp(dt) == dt - tz
\* strftime(DATETIME_FORMAT) / strptime(.., DATETIME_FORMAT): the text of an hour
\* start; exact to the second, so parsing gives the formatted datetime back
Strftime(dt) == [text |-> dt]
Strptime(s) == s.text

_to_unix_time(dt) == Timestamp(dt)
\* datetime.utcfromtimestamp(u): the naive UTC datetime
_from_unix_time(u) == u

\* StateJSONEncoder.default for an AppIdState: last_profile_update is not written
EncodeAppIdState(o) ==
    [app_id |-> o.app_id,
     date_updates |-> [i \in 1..Len(o.date_updates) |->
                          [key |-> Strftime(o.date_updates[i].hour),
                           ts |-> Timestamp(o.date_updates[i].at)]]]

\* StateJSONEncoder.default for a State
EncodeState(o) ==
    [last_update_time |-> IF o.last_update_time # None
                          THEN Some(Timestamp(o.last_update_time[1])) ELSE None,
     app_id_states |-> [i \in 1..Len(o.app_id_states) |-> EncodeAppIdState(o.app_id_states[i])]]

RECURSIVE ParseItems(_, _)
ParseItems(items, acc) ==
    IF items = <<>> THEN acc
    ELSE ParseItems(Tail(items),
                    DictSet(acc, Strptime(Head(items).key), _from_unix_time(Head(items).ts)))

_parse_date_updates(json_object) == ParseItems(json_object, <<>>)

_parse_app_id_state(json_object) ==
    AppIdState(json_object.app_id, _parse_date_updates(json_object.date_updates))

_parse_state(json_object) ==
    State(IF json_object.last_update_time # None
          THEN Some(_from_unix_time(json_object.last_update_time[1])) ELSE None,
          [i \in 1..Len(json_object.app_id_states) |->
              _parse_app_id_state(json_object.app_id_states[i])])

\* StateStorage.load: the decoded record, or the empty default State
StorageLoad(doc) == IF doc = None THEN State(None, <<>>) ELSE _parse_state(doc[1])
\* StateStorage.save: total overwrite with the encoded State
StorageSave(st) == Some(EncodeState(st))

---------------------------------------------------------------------------
\* Scheduler: scheduler.py

\* The index of the first entity with this key, 0 when there is none
\* ([s for s in app_id_states if s.app_id == app_id_state_id][0]).
EntityIndex(st, app_id) ==
    IF \E i \in 1..Len(st.app_id_states) : st.app_id_states[i].app_id = app_id
    THEN CHOOSE i \in 1..Len(st.app_id_states) :
            /\ st.app_id_states[i].app_id = app_id
            /\ \A m \in 1..(i - 1) : st.app_id_states[m].app_id # app_id
    ELSE 0

\* A _get_or_create_app_id_state that creates an entity on every call
_get_or_create_always_creates(st, source, app_id) ==
    [st EXCEPT !.app_id_states = Append(@, AppIdState(<<source, app_id>>, <<>>))]
\* Scheduler._get_or_create_app_id_state: the state with the entity present
_get_or_create_app_id_state(st, source, app_id) ==
    IF EntityIndex(st, <<source, app_id>>) = 0
    THEN [st EXCEPT !.app_id_states = Append(@, AppIdState(<<source, app_id>>, <<>>))]
    ELSE st

\* The entity _get_or_create_app_id_state returns
Entity(st, source, app_id) == st.app_id_states[EntityIndex(st, <<source, app_id>>)]

\* Scheduler._save_state
_save_state(st) == StorageSave(st)

\* The assignment date_updates[p_hour] = at on the entity of (source, app_id)
SetMark(st, source, app_id, p_hour, at) ==
    [st EXCEPT !.app_id_states[EntityIndex(st, <<source, app_id>>)].date_updates =
                   DictSet(@, p_hour, at)]

\* Scheduler._mark_hour_updated: the state after it (profile entities are left alone)
_mark_hour_updated(st, source, app_id, p_hour, at) ==
    IF IsProfiles(<<source, app_id>>) THEN st
    ELSE SetMark(st, source, app_id, p_hour, at)

\* Scheduler._mark_hour_archived: the state after it
_mark_hour_archived(st, source, app_id, p_hour) ==
    IF IsProfiles(<<source, app_id>>) THEN st
    ELSE SetMark(st, source, app_id, p_hour, ARCHIVED_HOUR)

\* What the State Store holds after a _mark_hour_* call on this entity
StoredAfterMark(doc, st, source, app_id) ==
    IF IsProfiles(<<source, app_id>>) THEN doc ELSE _save_state(st)

\* An _is_hour_archived that recognises no mark
_is_hour_archived_never(app_id_state, p_hour) == FALSE
\* Scheduler._is_hour_archived
_is_hour_archived(app_id_state, p_hour) ==
    LET updated_at == DictGet(app_id_state.date_updates, p_hour)
    IN  updated_at # None /\ updated_at[1] = ARCHIVED_HOUR

\* Scheduler._wait_time: None, or the timedelta to sleep
_wait_time(st, update_interval, t) ==
    IF st.last_update_time = None THEN None
    ELSE LET delta == st.last_update_time[1] - t + update_interval
         IN  IF delta < 0 THEN None ELSE Some(delta)

\* datetime.replace(minute=0, second=0, ...) and replace(hour=0, ...): floor to a unit
FloorTo(t, unit) == t - (t % unit)
\* p_hour.replace(minute=59, second=59), for an hour of `hour` time units
last_event_hour(p_hour, hour) == p_hour + hour - 1
LastEventHour(p_hour) == last_event_hour(p_hour, HOUR)

\* A date_range that runs backwards
NextHourBackwards(p_hour) == p_hour - HOUR
\* pd.date_range(hour_from, hour_to, freq='H'): the hour after p_hour
NextHour(p_hour) == p_hour + HOUR

\* An hour_from that is not floored to the day
hour_from_unfloored(to, update_limit, day) == to - update_limit
\* hour_to and hour_from of update_requests, for any scale of time
hour_to(started_at, safe_lag, hour) == FloorTo(started_at - safe_lag, hour)
hour_from(to, update_limit, day) == FloorTo(to - update_limit, day)
\* hour_to and hour_from of update_requests
HourTo(started_at) == hour_to(started_at, SAFE_LAG, HOUR)
HourFrom(started_at) == hour_from(HourTo(started_at), UPDATE_LIMIT, DAY)

\* A freshness test that measures from the start of the hour
fresh_from_hour_start(reference, p_hour, fresh_limit, hour) ==
    reference - p_hour < fresh_limit
\* fresh = reference - last_event_hour < fresh_limit, for any scale of time
fresh(reference, p_hour, fresh_limit, hour) ==
    reference - last_event_hour(p_hour, hour) < fresh_limit
\* updated = started_at - updated_at < update_interval
updated(started_at, updated_at, update_interval) ==
    started_at - updated_at < update_interval

\* fresh = last_event_delta < self._fresh_limit
FreshDelta(last_event_delta) == last_event_delta < FRESH_LIMIT
\* fresh = updated_at - last_event_hour < self._fresh_limit
Fresh(reference, p_hour) == fresh(reference, p_hour, FRESH_LIMIT, HOUR)

\* updated, as _update_hour computes it
Updated(started_at, updated_at) == updated(started_at, updated_at, UPDATE_INTERVAL)

\* The condition of _update_profiles_if_needed
ProfilesNeeded(last_profile_update, t) ==
    last_profile_update = None \/ t - last_profile_update[1] > PROFILE_UPDATE_INTERVAL

---------------------------------------------------------------------------
\* Table store and snapshot swapper: updates_controller.py, db_controller.py

\* A table is absent (<<>>) or holds a sequence of rows (<<rows>>).
Absent == <<>>
\* The snapshots a fetch may return (rows are opaque profile records).
Frames == {<<>>, <<"p2">>, <<"p2", "p3">>}
\* The profile tables a run may find at its start.
InitDbs ==
    {[latest |-> l, tmp |-> t] :
        l \in {Absent, Some(<<>>), Some(<<"p1">>), Some(<<"p0", "p1">>)},
        t \in {Absent, Some(<<"p9">>)}}

\* Database.drop_table: drops the table, a no-op when it is absent
drop_table(d, name) == [d EXCEPT ![name] = Absent]
\* Database.rename_table
rename_table(d, from, to) == [d EXCEPT ![to] = d[from], ![from] = Absent]
\* DbController._create_table: a new empty table
_create_table(d, name) == [d EXCEPT ![name] = Some(<<>>)]
\* insert_data losing the last row of the frame
InsertedRowsLossy(df) == SubSeq(df, 1, Len(df) - 1)
\* The rows insert_data writes: every row of the frame, its export columns kept
InsertedRows(df) == df
\* DbController.insert_data
insert_data(d, df, name) == [d EXCEPT ![name] = Some(@[1] \o InsertedRows(df))]

\* An except branch that logs and drops nothing
CleanupSkipped(d, cleanupOk) == d
\* The except branch of _load_profiles: drop the temp table, best effort
Cleanup(d, cleanupOk) == IF cleanupOk THEN drop_table(d, "tmp") ELSE d

\* The inputs of one _load_profiles call: the storage step that raises (0: none;
\* 1 drop temp, 2 create temp, 3 fetch, 4 insert, 5 drop latest, 6 rename), what the
\* fetch returns (None: no frame) and whether the clean-up drop succeeds.
SwapInputs ==
    [failAt : 0..6, fetched : {None} \cup {Some(f) : f \in Frames}, cleanupOk : BOOLEAN]

\* The step at which the try block of _load_profiles is left by an exception (0:
\* it runs to its end).  No frame fails the assert after the fetch.
FailStep(inp) ==
    IF inp.failAt \in {1, 2} THEN inp.failAt
    ELSE IF inp.failAt = 3 \/ inp.fetched = None THEN 3
    ELSE inp.failAt

\* UpdatesController._load_profiles: the tables when it returns
_load_profiles(d, inp) ==
    LET d1 == drop_table(d, "tmp")
        d2 == _create_table(d1, "tmp")
        d4 == insert_data(d2, inp.fetched[1], "tmp")
        d5 == drop_table(d4, "latest")
        d6 == rename_table(d5, "tmp", "latest")
        step == FailStep(inp)
    IN  CASE step = 0 -> d6
          [] step = 1 -> Cleanup(d, inp.cleanupOk)
          [] step = 2 -> Cleanup(d1, inp.cleanupOk)
          [] step \in {3, 4} -> Cleanup(d2, inp.cleanupOk)
          [] step = 5 -> Cleanup(d4, inp.cleanupOk)
          [] step = 6 -> Cleanup(d5, inp.cleanupOk)

---------------------------------------------------------------------------
\* Update executor: updates_controller.py

\* An _update whose except clause also swallows the failure of an ARCHIVE
UpdateRaisesNotArchive(update_type, failed) ==
    failed /\ update_type \notin {LOAD_PROFILES, ARCHIVE}
\* Whether a failure of the request's external operation leaves _update as an
\* exception: the except clause of _update re-raises, but _load_profiles has
\* caught and logged its own failure before.
UpdateRaises(update_type, failed) == failed /\ update_type # LOAD_PROFILES

\* The sources whose loads _update records with _mark_hour_updated
TrackedSources == {"events", "sessions_starts"}

---------------------------------------------------------------------------
\* Initial states

IdleGen ==
    [pc |-> "idle", started_at |-> 0, ai |-> 0, si |-> 0, k |-> 0, h |-> 0, j |-> 0,
     led |-> 0, pnow |-> 0]

AppSet == {app_ids[i] : i \in 1..Len(app_ids)}

InitHist ==
    [everArchived |-> {}, archivedBefore |-> {}, lastFinish |-> None,
     lastProf |-> [a \in AppSet |-> None], profGap |-> [a \in AppSet |-> None],
     lastUpd |-> None, failedLoad |-> None, completed |-> FALSE, passes |-> 0,
     walk |-> 0, before |-> None]

\* The first pass starts two hours into day 0.
StartTime == 2 * HOUR

Init ==
    /\ \E c \in Configs : tz = c.tz /\ sources = c.sources
    /\ now = StartTime
    /\ stored = None
    /\ state = State(None, <<>>)
    /\ gen = IdleGen
    /\ req = NoRequest
    /\ ctl = "run"
    /\ trace = <<>>
    /\ hist = InitHist
    /\ db = [latest |-> Some(<<"p1">>), tmp |-> Absent]
    /\ lastSwap = None

---------------------------------------------------------------------------
\* Scheduler.update_requests, one action per stretch of the generator between
\* two suspension points

\* The (source, app_id) pair the generator is walking
CurSource == sources[gen.si]
CurApp == app_ids[gen.ai]
CurEntity == Entity(state, CurSource, CurApp)

\* A yield: the generator suspends on the request
Yield(r) ==
    /\ req' = r
    /\ trace' = Append(trace, r)

\* update_requests, line 178: _load_state()
LoadState ==
    /\ ctl = "run"
    /\ gen.pc = "idle"
    /\ hist.passes < MaxPasses
    /\ state' = StorageLoad(stored)
    /\ gen' = [IdleGen EXCEPT !.pc = "gate"]
    /\ trace' = <<>>
    /\ hist' = [hist EXCEPT !.archivedBefore = hist.everArchived,
                            !.completed = FALSE,
                            !.passes = @ + 1,
                            !.walk = 0,
                            !.failedLoad = IF hist.completed THEN None ELSE @]
    /\ UNCHANGED <<tz, sources, now, stored, req, ctl, db, lastSwap>>

\* update_requests, lines 179-180: _wait_if_needed(), started_at = datetime.now()
WaitIfNeeded ==
    /\ gen.pc = "gate"
    /\ LET wait_time == _wait_time(state, UPDATE_INTERVAL, now)
           woken == IF wait_time # None /\ wait_time[1] # 0 THEN now + wait_time[1] ELSE now
       IN  /\ woken <= MaxTime
           /\ now' = woken
           /\ gen' = [gen EXCEPT !.pc = "entity", !.started_at = woken, !.ai = 1, !.si = 1]
    /\ UNCHANGED <<tz, sources, stored, state, req, ctl, trace, hist, db, lastSwap>>

\* update_requests, lines 182-184 and 203: the heads of the loops over app_ids and
\* date_required_sources, and the entity of the pair
NextEntity ==
    /\ gen.pc = "entity"
    /\ IF gen.ai > Len(app_ids)
       THEN /\ gen' = [gen EXCEPT !.pc = "profiles", !.ai = 1, !.pnow = now]
            /\ UNCHANGED <<state, hist>>
       ELSE IF gen.si > Len(sources)
       THEN /\ gen' = [gen EXCEPT !.ai = @ + 1, !.si = 1]
            /\ UNCHANGED <<state, hist>>
       ELSE /\ state' = _get_or_create_app_id_state(state, CurSource, CurApp)
            /\ gen' = [gen EXCEPT !.pc = "archive", !.k = 1]
            /\ hist' = [hist EXCEPT !.walk = Len(trace)]
    /\ UNCHANGED <<tz, sources, now, stored, req, ctl, trace, db, lastSwap>>

\* _archive_old_hours: the loop over date_updates.items() up to its next yield
_archive_old_hours ==
    /\ gen.pc = "archive"
    /\ req = NoRequest
    /\ LET du == CurEntity.date_updates
       IN  IF gen.k > Len(du)
           THEN /\ gen' = [gen EXCEPT !.pc = "window", !.h = HourFrom(gen.started_at)]
                /\ UNCHANGED <<req, trace>>
           ELSE IF \/ _is_hour_archived(CurEntity, du[gen.k].hour)
                   \/ Fresh(du[gen.k].at, du[gen.k].hour)
           THEN /\ gen' = [gen EXCEPT !.k = @ + 1]
                /\ UNCHANGED <<req, trace>>
           ELSE /\ gen' = [gen EXCEPT !.pc = "archive_yield", !.j = 1]
                /\ Yield(UpdateRequest(sources[1], CurApp, Some(du[gen.k].hour), ARCHIVE))
    /\ UNCHANGED <<tz, sources, now, stored, state, ctl, hist, db, lastSwap>>

\* _archive_old_hours, lines 127-130: the next ARCHIVE of the bucket, or its mark
ResumeArchiveOldHours ==
    /\ gen.pc = "archive_yield"
    /\ req = NoRequest
    /\ LET p_hour == CurEntity.date_updates[gen.k].hour
       IN  IF gen.j < Len(sources)
           THEN /\ gen' = [gen EXCEPT !.j = @ + 1]
                /\ Yield(UpdateRequest(sources[gen.j + 1], CurApp, Some(p_hour), ARCHIVE))
                /\ UNCHANGED <<state, stored, hist>>
           ELSE /\ state' = _mark_hour_archived(state, CurSource, CurApp, p_hour)
                /\ stored' = StoredAfterMark(stored, state', CurSource, CurApp)
                /\ gen' = [gen EXCEPT !.pc = "archive", !.k = @ + 1]
                /\ hist' = [hist EXCEPT !.everArchived = @ \cup {<<CurApp, p_hour>>}]
                /\ UNCHANGED <<req, trace>>
    /\ UNCHANGED <<tz, sources, now, ctl, db, lastSwap>>

\* update_requests, lines 193-195, and _update_hour up to its first yield
_update_hour ==
    /\ gen.pc = "window"
    /\ req = NoRequest
    /\ LET updated_at == DictGet(CurEntity.date_updates, gen.h)
       IN  IF gen.h > HourTo(gen.started_at)
           THEN /\ gen' = [gen EXCEPT !.pc = "ignored", !.j = 0]
                /\ UNCHANGED <<req, trace>>
           ELSE IF updated_at # None /\ Updated(gen.started_at, updated_at[1])
           THEN /\ gen' = [gen EXCEPT !.h = NextHour(@)]
                /\ UNCHANGED <<req, trace>>
           ELSE /\ gen' = [gen EXCEPT
                             !.pc = "load_yield", !.j = 1,
                             !.led = (IF updated_at # None THEN updated_at[1]
                                      ELSE gen.started_at) - LastEventHour(gen.h)]
                /\ Yield(UpdateRequest(sources[1], CurApp, Some(gen.h), LOAD_ONE_HOUR))
    /\ UNCHANGED <<tz, sources, now, stored, state, ctl, hist, db, lastSwap>>

\* _update_hour, lines 143-149: the next LOAD_ONE_HOUR, then the freshness test
ResumeUpdateHourLoad ==
    /\ gen.pc = "load_yield"
    /\ req = NoRequest
    /\ IF gen.j < Len(sources)
       THEN /\ gen' = [gen EXCEPT !.j = @ + 1]
            /\ Yield(UpdateRequest(sources[gen.j + 1], CurApp, Some(gen.h), LOAD_ONE_HOUR))
       ELSE IF FreshDelta(gen.led)
       THEN /\ gen' = [gen EXCEPT !.pc = "window", !.h = NextHour(@)]
            /\ UNCHANGED <<req, trace>>
       ELSE /\ gen' = [gen EXCEPT !.pc = "hour_archive_yield", !.j = 1]
            /\ Yield(UpdateRequest(sources[1], CurApp, Some(gen.h), ARCHIVE))
    /\ UNCHANGED <<tz, sources, now, stored, state, ctl, hist, db, lastSwap>>

\* _update_hour, lines 150-153: the next ARCHIVE of the hour, or its mark
ResumeUpdateHourArchive ==
    /\ gen.pc = "hour_archive_yield"
    /\ req = NoRequest
    /\ IF gen.j < Len(sources)
       THEN /\ gen' = [gen EXCEPT !.j = @ + 1]
            /\ Yield(UpdateRequest(sources[gen.j + 1], CurApp, Some(gen.h), ARCHIVE))
            /\ UNCHANGED <<state, stored, hist>>
       ELSE /\ state' = _mark_hour_archived(state, CurSource, CurApp, gen.h)
            /\ stored' = StoredAfterMark(stored, state', CurSource, CurApp)
            /\ gen' = [gen EXCEPT !.pc = "window", !.h = NextHour(@)]
            /\ hist' = [hist EXCEPT !.everArchived = @ \cup {<<CurApp, gen.h>>}]
            /\ UNCHANGED <<req, trace>>
    /\ UNCHANGED <<tz, sources, now, ctl, db, lastSwap>>

\* _update_hour_ignored_fields, inside the loop over date_required_sources
_update_hour_ignored_fields ==
    /\ gen.pc = "ignored"
    /\ req = NoRequest
    /\ IF gen.j < Len(date_ignored_sources)
       THEN /\ gen' = [gen EXCEPT !.j = @ + 1]
            /\ Yield(UpdateRequest(date_ignored_sources[gen.j + 1], CurApp, None,
                                   LOAD_HOUR_IGNORED))
       ELSE /\ gen' = [gen EXCEPT !.pc = "entity", !.si = @ + 1]
            /\ UNCHANGED <<req, trace>>
    /\ UNCHANGED <<tz, sources, now, stored, state, ctl, hist, db, lastSwap>>

\* update_requests, lines 204-211, and _update_profiles_if_needed up to its yield
_update_profiles_if_needed ==
    /\ gen.pc = "profiles"
    /\ req = NoRequest
    /\ gen.ai <= Len(app_ids)
    /\ LET st == _get_or_create_app_id_state(state, "profiles", CurApp)
           last_profile_update == Entity(st, "profiles", CurApp).last_profile_update
       IN  /\ state' = st
           /\ IF ProfilesNeeded(last_profile_update, gen.pnow)
              THEN /\ gen' = [gen EXCEPT !.pc = "profiles_yield"]
                   /\ Yield(UpdateRequest("profiles", CurApp, None, LOAD_PROFILES))
                   /\ hist' = [hist EXCEPT
                                 !.lastProf[CurApp] = Some(gen.pnow),
                                 !.profGap[CurApp] =
                                     IF hist.lastProf[CurApp] = None THEN None
                                     ELSE Some(gen.pnow - hist.lastProf[CurApp][1])]
              ELSE /\ gen' = [gen EXCEPT !.ai = @ + 1]
                   /\ UNCHANGED <<req, trace, hist>>
    /\ UNCHANGED <<tz, sources, now, stored, ctl, db, lastSwap>>

\* _update_profiles_if_needed, line 174: last_profile_update = now, not saved
ResumeUpdateProfiles ==
    /\ gen.pc = "profiles_yield"
    /\ req = NoRequest
    /\ state' = [state EXCEPT
                   !.app_id_states[EntityIndex(state, <<"profiles", CurApp>>)]
                       .last_profile_update = Some(gen.pnow)]
    /\ gen' = [gen EXCEPT !.pc = "profiles", !.ai = @ + 1]
    /\ UNCHANGED <<tz, sources, now, stored, req, ctl, trace, hist, db, lastSwap>>

\* _finish_updates: the generator is exhausted, _step returns and run calls it again
_finish_updates ==
    /\ gen.pc = "profiles"
    /\ req = NoRequest
    /\ gen.ai > Len(app_ids)
    /\ state' = [state EXCEPT !.last_update_time = Some(now)]
    /\ stored' = _save_state(state')
    /\ gen' = IdleGen
    /\ hist' = [hist EXCEPT !.lastFinish = Some(now), !.completed = TRUE]
    /\ UNCHANGED <<tz, sources, now, req, ctl, trace, db, lastSwap>>

---------------------------------------------------------------------------
\* UpdatesController._update, _step and run

\* How long an external operation may take: less than a tick, or a tick
Durations == {0, 1}

\* The except clause of run: the generator is dropped, the backoff sleep follows
AbortCycle ==
    /\ ctl' = "sleep"
    /\ gen' = IdleGen
    /\ req' = NoRequest

\* _update for LOAD_ONE_HOUR, ARCHIVE and LOAD_HOUR_IGNORED: the external
\* operation takes d and fails or not
Update(d, failed) ==
    /\ ctl = "run"
    /\ req.update_type \in {LOAD_ONE_HOUR, ARCHIVE, LOAD_HOUR_IGNORED}
    /\ now + d <= MaxTime
    /\ now' = now + d
    /\ IF UpdateRaises(req.update_type, failed)
       THEN /\ AbortCycle
            /\ UNCHANGED <<state, stored>>
       ELSE /\ req' = NoRequest
            /\ UNCHANGED <<ctl, gen>>
            /\ IF /\ ~failed
                  /\ req.update_type = LOAD_ONE_HOUR
                  /\ req.source # "profiles"
                  /\ req.source \in TrackedSources
               THEN LET st == _get_or_create_app_id_state(state, req.source, req.app_id)
                    IN  /\ state' = _mark_hour_updated(st, req.source, req.app_id,
                                                       req.hour[1], now')
                        /\ stored' = StoredAfterMark(stored, state', req.source, req.app_id)
               ELSE UNCHANGED <<state, stored>>
    /\ hist' = [hist EXCEPT
                  !.lastUpd = Some([req |-> req, failed |-> failed,
                                    raised |-> UpdateRaises(req.update_type, failed)]),
                  !.failedLoad = IF UpdateRaises(req.update_type, failed)
                                 THEN (IF req.update_type = LOAD_ONE_HOUR THEN Some(req)
                                       ELSE None)
                                 ELSE @]
    /\ UNCHANGED <<tz, sources, trace, db, lastSwap>>

\* The snapshot loads a pass of the whole system draws: a fetch that returns a
\* frame with every storage step succeeding, and a fetch that returns none.
PassSwapInputs ==
    {[failAt |-> 0, fetched |-> Some(<<"p2">>), cleanupOk |-> TRUE],
     [failAt |-> 0, fetched |-> None, cleanupOk |-> TRUE]}

\* _update for load_profiles: _load_profiles on the tables
UpdateSnapshot(d, inp) ==
    /\ ctl = "run"
    /\ req.update_type = LOAD_PROFILES
    /\ now + d <= MaxTime
    /\ now' = now + d
    /\ db' = _load_profiles(db, inp)
    /\ IF UpdateRaises(req.update_type, FailStep(inp) # 0)
       THEN AbortCycle
       ELSE /\ req' = NoRequest
            /\ UNCHANGED <<ctl, gen>>
    /\ hist' = [hist EXCEPT
                  !.lastUpd = Some([req |-> req, failed |-> FailStep(inp) # 0,
                                    raised |-> UpdateRaises(req.update_type,
                                                            FailStep(inp) # 0)])]
    /\ UNCHANGED <<tz, sources, stored, state, trace, lastSwap>>

\* run, lines 154-156: the exception is logged, time.sleep(10), the next _step
Backoff ==
    /\ ctl = "sleep"
    /\ now + BACKOFF <= MaxTime
    /\ now' = now + BACKOFF
    /\ ctl' = "run"
    /\ hist' = [hist EXCEPT !.lastUpd = None]
    /\ UNCHANGED <<tz, sources, stored, state, gen, req, trace, db, lastSwap>>

\* The process is terminated from outside while it waits for an external
\* operation and is started again, which takes a tick: only the State Store and
\* the tables survive (Scheduler._state is read again by _load_state before
\* anything uses it)
Restart ==
    /\ ctl = "run"
    /\ req # NoRequest
    /\ now + 1 <= MaxTime
    /\ now' = now + 1
    /\ gen' = IdleGen
    /\ req' = NoRequest
    /\ hist' = [hist EXCEPT !.lastUpd = None, !.failedLoad = None]
    /\ UNCHANGED <<tz, sources, stored, state, ctl, trace, db, lastSwap>>

Next ==
    \/ LoadState
    \/ WaitIfNeeded
    \/ NextEntity
    \/ _archive_old_hours
    \/ ResumeArchiveOldHours
    \/ _update_hour
    \/ ResumeUpdateHourLoad
    \/ ResumeUpdateHourArchive
    \/ _update_hour_ignored_fields
    \/ _update_profiles_if_needed
    \/ ResumeUpdateProfiles
    \/ _finish_updates
    \/ \E d \in Durations, failed \in BOOLEAN : Update(d, failed)
    \/ \E d \in Durations, inp \in PassSwapInputs : UpdateSnapshot(d, inp)
    \/ Backoff
    \/ Restart

Spec == Init /\ [][Next]_vars

---------------------------------------------------------------------------
\* The process when every request succeeds: no external operation fails, the
\* fetch returns a frame, and the process is never stopped

SucceedingSwapInput == [failAt |-> 0, fetched |-> Some(<<"p2">>), cleanupOk |-> TRUE]

NextSucceeding ==
    \/ LoadState
    \/ WaitIfNeeded
    \/ NextEntity
    \/ _archive_old_hours
    \/ ResumeArchiveOldHours
    \/ _update_hour
    \/ ResumeUpdateHourLoad
    \/ ResumeUpdateHourArchive
    \/ _update_hour_ignored_fields
    \/ _update_profiles_if_needed
    \/ ResumeUpdateProfiles
    \/ _finish_updates
    \/ \E d \in Durations : Update(d, FALSE)
    \/ \E d \in Durations : UpdateSnapshot(d, SucceedingSwapInput)

SpecSucceeding == Init /\ [][NextSucceeding]_vars

---------------------------------------------------------------------------
\* The same process with an hour-required source whose loads _update does not
\* record: date_required_sources = [events, installations]

UntrackedSources == <<"events", "installations">>

InitUntracked ==
    /\ tz = 0
    /\ sources = UntrackedSources
    /\ now = StartTime
    /\ stored = None
    /\ state = State(None, <<>>)
    /\ gen = IdleGen
    /\ req = NoRequest
    /\ ctl = "run"
    /\ trace = <<>>
    /\ hist = InitHist
    /\ db = [latest |-> Some(<<"p1">>), tmp |-> Absent]
    /\ lastSwap = None

SpecUntracked == InitUntracked /\ [][Next]_vars

---------------------------------------------------------------------------
\* The snapshot swapper alone: _load_profiles called on any tables with any
\* outcome of its steps

InitSwap ==
    /\ tz = 0
    /\ sources = <<"events">>
    /\ now = StartTime
    /\ stored = None
    /\ state = State(None, <<>>)
    /\ gen = IdleGen
    /\ req = NoRequest
    /\ ctl = "run"
    /\ trace = <<>>
    /\ hist = InitHist
    /\ db \in InitDbs
    /\ lastSwap = None

LoadProfilesCall(inp) ==
    /\ db' = _load_profiles(db, inp)
    /\ lastSwap' = Some([before |-> db, inp |-> inp])
    /\ UNCHANGED <<tz, sources, now, stored, state, gen, req, ctl, trace, hist>>

NextSwap == \E inp \in SwapInputs : LoadProfilesCall(inp)

SpecSwap == InitSwap /\ [][NextSwap]_vars

---------------------------------------------------------------------------
\* One pass over one hour bucket at the scale of seconds: what update_requests
\* yields for the bucket and the marks it leaves, every request succeeding at
\* once.  Datetimes are seconds since 2024-01-01 00:00:00.

SecondsPerHour == 3600
HoursPerDay == 24
SecondsPerDay == HoursPerDay * SecondsPerHour
\* datetime(2024, 1, day, h, m, s)
Clock(day, h, m, s) == ((day - 1) * HoursPerDay + h) * SecondsPerHour + m * 60 + s

\* The settings of the pass
ScenarioUpdateInterval == 1 * SecondsPerHour
ScenarioFreshLimit == 6 * SecondsPerHour
ScenarioSafeLag == 2 * SecondsPerHour
ScenarioUpdateLimit == 24 * SecondsPerHour
ScenarioNow == Clock(2, 3, 0, 0)

\* The times a pass starts at, the buckets it looks at and the marks they carry
ScenarioTimes ==
    {Clock(2, 2, 59, 59), ScenarioNow, Clock(2, 3, 0, 1), Clock(2, 3, 59, 59),
     Clock(2, 4, 0, 0)}
ScenarioBuckets ==
    {Clock(0, 23, 0, 0), Clock(1, 0, 0, 0), Clock(1, 10, 0, 0), Clock(1, 20, 0, 0),
     Clock(2, 1, 0, 0), Clock(2, 2, 0, 0)}
ScenarioMarks ==
    {Clock(1, 16, 30, 0), Clock(1, 16, 59, 58), Clock(1, 16, 59, 59),
     Clock(1, 23, 0, 0), Clock(2, 2, 0, 0), Clock(2, 2, 30, 0), ScenarioNow}

\* pd.date_range(hour_from, hour_to, freq='H')
date_range(from, to, hour) == {from + i * hour : i \in 0..((to - from) \div hour)}

\* A mark is the datetime.now() of a load, and a bucket is loaded only once the
\* safe lag has passed it.
InitBucket ==
    /\ tz = 0
    /\ sources = <<"events">>
    /\ now \in ScenarioTimes
    /\ \/ state = State(None, <<>>)
       \/ \E p_hour \in ScenarioBuckets : \E at \in ScenarioMarks :
             /\ p_hour + ScenarioSafeLag <= at
             /\ at <= now
             /\ state = State(None, <<AppIdState(<<"events", app_ids[1]>>,
                                                 <<[hour |-> p_hour, at |-> at]>>)>>)
    /\ stored = IF state.app_id_states = <<>> THEN None ELSE _save_state(state)
    /\ gen = IdleGen
    /\ req = NoRequest
    /\ ctl = "run"
    /\ trace = <<>>
    /\ hist = InitHist
    /\ db = [latest |-> Some(<<"p1">>), tmp |-> Absent]
    /\ lastSwap = None

PassOverBucket(p_hour) ==
    /\ hist.passes = 0
    /\ \A i \in 1..Len(state.app_id_states) :
          \A m \in 1..Len(state.app_id_states[i].date_updates) :
             state.app_id_states[i].date_updates[m].hour = p_hour
    /\ LET source == sources[1]
           app_id == app_ids[1]
           started_at == now
           st0 == _get_or_create_app_id_state(state, source, app_id)
           before == DictGet(Entity(st0, source, app_id).date_updates, p_hour)
           \* _archive_old_hours
           old == /\ before # None
                  /\ ~_is_hour_archived(Entity(st0, source, app_id), p_hour)
                  /\ ~fresh(before[1], p_hour, ScenarioFreshLimit, SecondsPerHour)
           st1 == IF old THEN _mark_hour_archived(st0, source, app_id, p_hour) ELSE st0
           \* the window
           to == hour_to(started_at, ScenarioSafeLag, SecondsPerHour)
           from == hour_from(to, ScenarioUpdateLimit, SecondsPerDay)
           \* _update_hour
           updated_at == DictGet(Entity(st1, source, app_id).date_updates, p_hour)
           load == /\ p_hour \in date_range(from, to, SecondsPerHour)
                   /\ ~(/\ updated_at # None
                         /\ updated(started_at, updated_at[1], ScenarioUpdateInterval))
           reference == IF updated_at # None THEN updated_at[1] ELSE started_at
           archive == /\ load
                      /\ ~fresh(reference, p_hour, ScenarioFreshLimit, SecondsPerHour)
           st2 == IF load THEN _mark_hour_updated(st1, source, app_id, p_hour, now) ELSE st1
           st3 == IF archive THEN _mark_hour_archived(st2, source, app_id, p_hour) ELSE st2
           request(update_type) == UpdateRequest(source, app_id, Some(p_hour), update_type)
       IN  /\ state' = st3
           /\ stored' = IF old \/ load THEN _save_state(st3) ELSE stored
           /\ trace' = (IF old THEN <<request(ARCHIVE)>> ELSE <<>>)
                           \o (IF load THEN <<request(LOAD_ONE_HOUR)>> ELSE <<>>)
                           \o (IF archive THEN <<request(ARCHIVE)>> ELSE <<>>)
           /\ gen' = [IdleGen EXCEPT !.started_at = started_at, !.h = p_hour]
           /\ hist' = [hist EXCEPT !.passes = 1, !.before = Some(before)]
    /\ UNCHANGED <<tz, sources, now, req, ctl, db, lastSwap>>

NextBucket == \E p_hour \in ScenarioBuckets : PassOverBucket(p_hour)

SpecBucket == InitBucket /\ [][NextBucket]_vars

---------------------------------------------------------------------------
\* Properties.  Helpers first.

Range(s) == {s[i] : i \in 1..Len(s)}
\* The hour buckets a run can touch
HourBuckets == {h \in 0..MaxTime : h % HOUR = 0}
\* The entities of the hour-required sources
HourKeys == {<<sources[i], a>> : i \in 1..Len(sources), a \in AppSet}
\* The mark of bucket h in the entity key of st: <<>> for none
MarkOf(st, key, h) ==
    IF EntityIndex(st, key) = 0 THEN None
    ELSE DictGet(st.app_id_states[EntityIndex(st, key)].date_updates, h)
ArchivedIn(st, key, h) == MarkOf(st, key, h) = Some(ARCHIVED_HOUR)
UpdatedAtIn(st, key, h) == MarkOf(st, key, h) # None /\ ~ArchivedIn(st, key, h)
\* How many requests of the current pass equal r
Yielded(r) == Cardinality({i \in 1..Len(trace) : trace[i] = r})

\* C1 (archive terminality of requests): once a bucket of an application was
\* marked archived in an entity's hour marks, no later pass yields a
\* LOAD_ONE_HOUR or an ARCHIVE request for that bucket.  hist.archivedBefore
\* holds the buckets marked archived before the current pass started.
C1_NoRequestForArchivedBucket ==
    req.update_type \in {LOAD_ONE_HOUR, ARCHIVE}
        => <<req.app_id, req.hour[1]>> \notin hist.archivedBefore

\* C2 (archived is a terminal marker): no step of the Scheduler or of the
\* Controller turns a mark that is the archived sentinel into anything else.
C2_ArchivedMarkerTerminal ==
    [][\A key \in HourKeys, h \in HourBuckets :
           ArchivedIn(state, key, h) => ArchivedIn(state', key, h)]_vars

\* C3 (at-least-once load): an updated-at mark of (source, app, hour) changes
\* only in the Controller's step that completes the LOAD_ONE_HOUR request of
\* that same (source, app, hour) without raising; a step that raises leaves
\* the marks and the State Store unchanged; and a pass that runs to its end
\* after a load raised has yielded that load again.
C3_MarkOnlyAfterLoad ==
    \A key \in HourKeys, h \in HourBuckets :
        (UpdatedAtIn(state', key, h) /\ MarkOf(state', key, h) # MarkOf(state, key, h))
            => /\ req = UpdateRequest(key[1], key[2], Some(h), LOAD_ONE_HOUR)
               /\ hist'.lastUpd = Some([req |-> req, failed |-> FALSE, raised |-> FALSE])
C3_RaiseLeavesMarks ==
    (hist'.lastUpd # hist.lastUpd /\ hist'.lastUpd # None /\ hist'.lastUpd[1].raised)
        => state' = state /\ stored' = stored
C3_FailedLoadYieldedAgain ==
    (hist.completed /\ hist.failedLoad # None) => hist.failedLoad[1] \in Range(trace)
C3_AtLeastOnceLoad ==
    /\ [][C3_MarkOnlyAfterLoad /\ C3_RaiseLeavesMarks]_vars
    /\ []C3_FailedLoadYieldedAgain

\* C4 (idempotent re-scan): while the entity (source, app) holds for hour H an
\* updated-at mark T with started_at = T + d and 0 <= d < update_interval, the
\* pass yields no LOAD_ONE_HOUR request for that source, application and hour.
C4_NoLoadWithinInterval ==
    req.update_type = LOAD_ONE_HOUR
        => LET key == <<req.source, req.app_id>>
               m == MarkOf(state, key, req.hour[1])
           IN  ~(/\ UpdatedAtIn(state, key, req.hour[1])
                 /\ m[1] <= gen.started_at
                 /\ gen.started_at - m[1] < UPDATE_INTERVAL)

\* The reference time of the ARCHIVE request the generator is suspended on: the
\* bucket's mark in the archive sweep; in the window sweep the mark the hour had
\* when it was examined, or started_at when it had none.
ArchiveReference ==
    IF gen.pc = "archive_yield" THEN CurEntity.date_updates[gen.k].at
    ELSE gen.led + LastEventHour(gen.h)

\* C5 (freshness threshold exactness): an ARCHIVE request for H is yielded only
\* when reference_time - (H + 59:59) >= fresh_limit; a bucket the pass marks
\* archived got an ARCHIVE request for every hour-required source; and no
\* ARCHIVE request for the same (source, app, H) is yielded twice in a pass.
C5_ExactlyOneArchivePerSource ==
    /\ req.update_type = ARCHIVE
          => ArchiveReference - (req.hour[1] + (HOUR - 1)) >= FRESH_LIMIT
    /\ \A b \in hist.everArchived \ hist.archivedBefore : \A i \in 1..Len(sources) :
          Yielded(UpdateRequest(sources[i], b[1], Some(b[2]), ARCHIVE)) >= 1
    /\ \A r \in Range(trace) : r.update_type = ARCHIVE => Yielded(r) = 1

\* C6 (profile cadence): two consecutive load_profiles requests of the same
\* application are more than profile_refresh_interval apart, however many
\* passes (each reloading the progress record) ran in between.
C6_ProfileCadence ==
    \A a \in AppSet :
        hist.profGap[a] # None => hist.profGap[a][1] > PROFILE_UPDATE_INTERVAL

\* C7 (pass rate-limiting): once a pass has completed at time F, a later pass
\* gets past the rate gate (fixes started_at, sweeps, yields) no earlier than
\* F + update_interval.
C7_PassRateLimited ==
    (hist.lastFinish # None /\ gen.pc \notin {"idle", "gate"})
        => /\ gen.started_at >= hist.lastFinish[1] + UPDATE_INTERVAL
           /\ now >= hist.lastFinish[1] + UPDATE_INTERVAL

HourlyKinds == {LOAD_ONE_HOUR, ARCHIVE, LOAD_HOUR_IGNORED}

\* C8 as stated (failure propagation for every request kind): whenever the
\* external operation of a request fails, _update raises.
C8_EveryFailureRaises ==
    hist.lastUpd # None => (hist.lastUpd[1].failed => hist.lastUpd[1].raised)

\* C8 amended: a failure of a load-hour, archive or load-hour-ignoring-time
\* request is re-raised, the cycle is aborted and the outer loop goes to its
\* backoff sleep; a failure inside the snapshot swapper is caught and logged
\* there, _update returns normally and the cycle continues.
C8_HourlyFailuresRaiseSwapFailuresDoNot ==
    hist.lastUpd # None =>
        LET u == hist.lastUpd[1]
        IN  /\ (u.failed /\ u.req.update_type \in HourlyKinds)
                  => u.raised /\ ctl = "sleep" /\ gen.pc = "idle" /\ req = NoRequest
            /\ u.req.update_type = LOAD_PROFILES => ~u.raised /\ ctl = "run"
            /\ ~u.failed => ~u.raised

C8_FailedArchiveAborted ==
    /\ hist.lastUpd # None
    /\ hist.lastUpd[1].failed
    /\ hist.lastUpd[1].req.update_type = ARCHIVE
    /\ ctl = "sleep"

\* C9 as stated (snapshot swap, failure before the swap): when step 1, 2, 3 or
\* 4 fails, "latest" is what it was and no temp table exists on return.
C9_FailureLeavesNoTemp ==
    (lastSwap # None /\ FailStep(lastSwap[1].inp) \in 1..4)
        => /\ db.latest = lastSwap[1].before.latest
           /\ db.tmp = Absent

\* C9 amended: when step 1, 2, 3 or 4 fails, "latest" is what it was, and no
\* temp table exists on return if the clean-up drop succeeded (the clean-up is
\* best effort: its own failure is logged and the temp table may remain).
C9_FailureKeepsLatest ==
    (lastSwap # None /\ FailStep(lastSwap[1].inp) \in 1..4)
        => /\ db.latest = lastSwap[1].before.latest
           /\ lastSwap[1].inp.cleanupOk => db.tmp = Absent

C9_InsertFailedOverLeftover ==
    /\ lastSwap # None
    /\ FailStep(lastSwap[1].inp) = 4
    /\ lastSwap[1].inp.cleanupOk
    /\ lastSwap[1].before = [latest |-> Some(<<"p0", "p1">>), tmp |-> Some(<<"p9">>)]
    /\ db = [latest |-> Some(<<"p0", "p1">>), tmp |-> Absent]

\* C10 (snapshot swap, success path): when the fetch returns a frame and every
\* storage step succeeds, "latest" holds exactly the fetched rows and no temp
\* table exists on return.
C10_SuccessSwapsSnapshot ==
    (lastSwap # None /\ FailStep(lastSwap[1].inp) = 0)
        => /\ db.latest = Some(lastSwap[1].inp.fetched[1])
           /\ db.tmp = Absent

C10_SwappedOverLeftover ==
    /\ lastSwap # None
    /\ FailStep(lastSwap[1].inp) = 0
    /\ lastSwap[1].inp.fetched = Some(<<"p2", "p3">>)
    /\ lastSwap[1].before = [latest |-> Some(<<"p0", "p1">>), tmp |-> Some(<<"p9">>)]
    /\ db = [latest |-> Some(<<"p2", "p3">>), tmp |-> Absent]

\* C11 (empty fetch is a hard error): when "latest" holds rows, the fetch
\* returns no frame or a frame without rows and the clean-up drop (if one is
\* made) succeeds, the swap is not performed: "latest" is what it was and no
\* temp table exists on return.
C11_EmptyFetchKeepsSnapshot ==
    (/\ lastSwap # None
     /\ lastSwap[1].before.latest \notin {Absent, Some(<<>>)}
     /\ lastSwap[1].inp.fetched \in {None, Some(<<>>)}
     /\ lastSwap[1].inp.cleanupOk)
        => /\ db.latest = lastSwap[1].before.latest
           /\ db.tmp = Absent

\* The positions in trace of the requests yielded so far by the walk of the
\* current entity
WalkSegment == (hist.walk + 1)..Len(trace)
InWalk == gen.pc \in {"archive", "archive_yield", "window", "load_yield",
                      "hour_archive_yield", "ignored"}

StoredMarkOf(doc, key, h) ==
    IF doc = None THEN None
    ELSE LET es == doc[1].app_id_states
             hit == {i \in 1..Len(es) : es[i].app_id = key}
         IN  IF hit = {} THEN None
             ELSE LET du == es[CHOOSE i \in hit : \A m \in hit : i <= m].date_updates
                      at == {i \in 1..Len(du) : du[i].key = Strftime(h)}
                  IN  IF at = {} THEN None ELSE Some(du[CHOOSE i \in at : TRUE].ts)
\* The stored mark is one a reload recognises as the archived sentinel
StoredArchived(doc, key, h) ==
    /\ StoredMarkOf(doc, key, h) # None
    /\ _from_unix_time(StoredMarkOf(doc, key, h)[1]) = ARCHIVED_HOUR

C13_NotMarkedWhileArchiving ==
    req.update_type = ARCHIVE
        => /\ ~ArchivedIn(state, <<CurSource, CurApp>>, req.hour[1])
           /\ ~StoredArchived(stored, <<CurSource, CurApp>>, req.hour[1])
\* A mark becomes archived only in the generator's step that is resumed after
\* the last ARCHIVE request of the bucket was executed without raising, and
\* that step saves the state.
C13_MarkedAfterLastArchive ==
    \A key \in HourKeys, h \in HourBuckets :
        (ArchivedIn(state', key, h) /\ ~ArchivedIn(state, key, h))
            => /\ req = NoRequest
               /\ gen.pc \in {"archive_yield", "hour_archive_yield"}
               /\ gen.j = Len(sources)
               /\ key = <<CurSource, CurApp>>
               /\ hist.lastUpd = Some([req |-> UpdateRequest(sources[Len(sources)], key[2],
                                                            Some(h), ARCHIVE),
                                       failed |-> FALSE, raised |-> FALSE])
               /\ stored' = _save_state(state')
\* A step that ends the pass while an ARCHIVE request is executed (the archive
\* operation raises, or the process is stopped) changes no mark.
C13_FailedArchiveLeavesMarks ==
    (req.update_type = ARCHIVE /\ gen'.pc = "idle") => UNCHANGED <<state, stored>>

C14_OneIgnoredLoadPerPass ==
    (hist.completed /\ gen.pc = "idle")
        => \A a \in AppSet : \A i \in 1..Len(date_ignored_sources) :
              Yielded(UpdateRequest(date_ignored_sources[i], a, None, LOAD_HOUR_IGNORED)) = 1

---------------------------------------------------------------------------
\* C15 and C16 are read on SpecBucket: one pass over one bucket, in seconds.

\* The hour boundaries and day boundaries around the scenario
HourStarts == {Clock(1, 0, 0, 0) + i * SecondsPerHour : i \in (0 - 48)..48}
DayStarts == {Clock(1, 0, 0, 0) + i * SecondsPerDay : i \in (0 - 3)..3}
\* The start of the hour and of the day that holds t
StartOfHour(t) == CHOOSE h \in HourStarts : h <= t /\ t < h + SecondsPerHour
StartOfDay(t) == CHOOSE d \in DayStarts : d <= t /\ t < d + SecondsPerDay
\* The bucket a finished single-bucket pass looked at, and its mark afterwards
BucketMark == DictGet(state.app_id_states[1].date_updates, gen.h)
BucketPassed == hist.passes = 1 /\ hist.before # None
LoadOf(p_hour) == UpdateRequest(sources[1], app_ids[1], Some(p_hour), LOAD_ONE_HOUR)
ArchiveOf(p_hour) == UpdateRequest(sources[1], app_ids[1], Some(p_hour), ARCHIVE)

\* C15: a pass started at t considers exactly the hours from hour_from to
\* hour_to, where hour_to is the start of the hour holding t - safe_lag and
\* hour_from the start of the day holding hour_to - update_limit.  No
\* LOAD_ONE_HOUR request has an hour outside the range, and an hour inside it is
\* left without a load only when its mark makes _update_hour return early.  With
\* update_limit 24h and safe_lag 2h, a pass at 2024-01-02 03:00:00 has hour_to
\* 2024-01-02 01:00:00 and hour_from 2024-01-01 00:00:00.
C15_WindowBounds ==
    BucketPassed =>
        LET t == gen.started_at
            to == StartOfHour(t - ScenarioSafeLag)
            from == StartOfDay(to - ScenarioUpdateLimit)
        IN  /\ LoadOf(gen.h) \in Range(trace) => (from <= gen.h /\ gen.h <= to)
            /\ (from <= gen.h /\ gen.h <= to /\ LoadOf(gen.h) \notin Range(trace))
                  => /\ BucketMark # None
                     /\ \/ BucketMark[1] = ARCHIVED_HOUR
                        \/ t - BucketMark[1] < ScenarioUpdateInterval
            /\ t = ScenarioNow =>
                  /\ hour_to(t, ScenarioSafeLag, SecondsPerHour) = Clock(2, 1, 0, 0)
                  /\ hour_from(Clock(2, 1, 0, 0), ScenarioUpdateLimit, SecondsPerDay)
                        = Clock(1, 0, 0, 0)
                  /\ LoadOf(gen.h) \in Range(trace) =>
                        (Clock(1, 0, 0, 0) <= gen.h /\ gen.h <= Clock(2, 1, 0, 0))

\* C15 witness: the pass at 2024-01-02 03:00:00 loads the first hour of its
\* window, 2024-01-01 00:00:00
C15_LoadsFirstHourOfWindow ==
    /\ BucketPassed
    /\ gen.started_at = ScenarioNow
    /\ gen.h = Clock(1, 0, 0, 0)
    /\ hist.before[1] = None
    /\ LoadOf(gen.h) \in Range(trace)

\* The mark the bucket carried when the pass started: <<>> for none
BucketMarkBefore == hist.before[1]
\* The pass of the scenario over the bucket p_hour that carried the mark at
ScenarioPass(p_hour, at) ==
    /\ BucketPassed
    /\ gen.started_at = ScenarioNow
    /\ gen.h = p_hour
    /\ BucketMarkBefore = Some(at)

\* C16 as stated: with update_interval 1h, fresh_limit 6h, safe_lag 2h and
\* update_limit 24h, the pass at 2024-01-02 03:00:00 archives the bucket
\* 2024-01-01 10:00:00 marked 2024-01-01 16:30:00 (ARCHIVE yielded, marker set)
\* and does not archive the bucket 2024-01-01 20:00:00 marked 2024-01-01 23:00:00.
C16_ScenarioArchivesTenOClock ==
    /\ ScenarioPass(Clock(1, 10, 0, 0), Clock(1, 16, 30, 0))
          => /\ ArchiveOf(gen.h) \in Range(trace)
             /\ BucketMark = Some(ARCHIVED_HOUR)
    /\ ScenarioPass(Clock(1, 20, 0, 0), Clock(1, 23, 0, 0))
          => /\ ArchiveOf(gen.h) \notin Range(trace)
             /\ BucketMark # Some(ARCHIVED_HOUR)

\* C16 as the code has it: a marked bucket is archived by a pass exactly when
\* its mark is fresh_limit or more after the bucket's last second (hh:59:59),
\* an unmarked one exactly when it is loaded fresh_limit or more after that
\* second.  In the scenario the bucket 10:00 marked 16:30:00 is 5:30:01 past
\* 10:59:59, so it is loaded again and not archived; it is archived with a
\* mark of 16:59:59, not with one of 16:59:58.  The bucket 20:00 marked 23:00
\* is loaded again and not archived.
C16_ScenarioArchiveDecision ==
    /\ (BucketPassed /\ BucketMarkBefore # None)
          => /\ ArchiveOf(gen.h) \in Range(trace)
                   <=> BucketMarkBefore[1] - (gen.h + Clock(1, 0, 59, 59))
                           >= ScenarioFreshLimit
             /\ ArchiveOf(gen.h) \in Range(trace) <=> BucketMark = Some(ARCHIVED_HOUR)
    /\ (BucketPassed /\ BucketMarkBefore = None)
          => (ArchiveOf(gen.h) \in Range(trace)
                 <=> /\ LoadOf(gen.h) \in Range(trace)
                     /\ gen.started_at - (gen.h + Clock(1, 0, 59, 59))
                           >= ScenarioFreshLimit)
    /\ ScenarioPass(Clock(1, 10, 0, 0), Clock(1, 16, 30, 0))
          => trace = <<LoadOf(gen.h)>> /\ BucketMark = Some(ScenarioNow)
    /\ ScenarioPass(Clock(1, 10, 0, 0), Clock(1, 16, 59, 58))
          => trace = <<LoadOf(gen.h)>> /\ BucketMark = Some(ScenarioNow)
    /\ ScenarioPass(Clock(1, 10, 0, 0), Clock(1, 16, 59, 59))
          => trace = <<ArchiveOf(gen.h)>> /\ BucketMark = Some(ARCHIVED_HOUR)
    /\ ScenarioPass(Clock(1, 20, 0, 0), Clock(1, 23, 0, 0))
          => trace = <<LoadOf(gen.h)>> /\ BucketMark = Some(ScenarioNow)

\* C16 witness: the scenario's pass has loaded the bucket 10:00 marked 16:30:00
\* again without archiving it
C16_TenOClockLoadedAgain ==
    /\ ScenarioPass(Clock(1, 10, 0, 0), Clock(1, 16, 30, 0))
    /\ trace = <<LoadOf(gen.h)>>
    /\ BucketMark = Some(ScenarioNow)

---------------------------------------------------------------------------
\* C17: in a cycle restarted after a failed request, no hour is loaded whose
\* committed updated-at mark is still within update_interval of the pass, and
\* once the restarted cycle completes, the hour load that failed has been
\* yielded again.
C17_RestartedCycleRedoesOnlyUncommitted ==
    /\ (/\ hist.failedLoad # None
        /\ req.update_type = LOAD_ONE_HOUR)
          => LET committed == MarkOf(StorageLoad(stored),
                                     <<req.source, req.app_id>>, req.hour[1])
             IN  \/ committed = None
                 \/ gen.started_at - committed[1] >= UPDATE_INTERVAL
    /\ (/\ hist.failedLoad # None
        /\ hist.completed)
          => \E i \in 1..Len(trace) : trace[i] = hist.failedLoad[1]

---------------------------------------------------------------------------
\* C18: from the moment a pass yields a load_profiles request for an
\* application at time T, the application's profile entity carries
\* last_profile_update = T, whatever becomes of the snapshot load and of the
\* cycle, and the next load_profiles request for the application comes more
\* than the profile refresh interval after T.
C18_ProfileMarkBeforeOutcome ==
    \A a \in AppSet :
        hist.lastProf[a] # None
            => /\ EntityIndex(state, <<"profiles", a>>) # 0
               /\ Entity(state, "profiles", a).last_profile_update = hist.lastProf[a]
               /\ hist.profGap[a] # None
                     => hist.profGap[a][1] > PROFILE_UPDATE_INTERVAL

---------------------------------------------------------------------------
\* The last_update_time the State Store holds: <<>> for none
StoredLastUpdateTime == StorageLoad(stored).last_update_time

\* C19: last_update_time, in memory and in the State Store, changes only in the
\* step that finishes a pass consumed to exhaustion, where it becomes the time
\* of that step and is saved; a step that aborts a pass, sleeps the backoff or
\* starts the next cycle leaves both unchanged.
C19_LastUpdateTimeSetOnExhaustion ==
    [][(\/ state'.last_update_time # state.last_update_time
        \/ StoredLastUpdateTime' # StoredLastUpdateTime)
          => /\ ~hist.completed
             /\ hist'.completed
             /\ state'.last_update_time = Some(now')
             /\ stored' = _save_state(state')]_vars

---------------------------------------------------------------------------
\* The hour marks of st and of the State Store are the same
MarksPersisted(st, doc) ==
    \A key \in HourKeys : \A h \in HourBuckets :
        MarkOf(StorageLoad(doc), key, h) = MarkOf(st, key, h)
\* A step that writes an hour mark (the reload of _load_state is not a write)
MarkWritten ==
    /\ ~(gen.pc = "idle" /\ gen'.pc = "gate")
    /\ \E key \in HourKeys : \E h \in HourBuckets :
          MarkOf(state', key, h) # MarkOf(state, key, h)

\* C20: every step that writes an hour mark saves the whole state in the same
\* step, and whenever a request is being executed the hour marks the State
\* Store holds are the hour marks in memory.
C20_MarksDurableWhileExecuting ==
    /\ [](req # NoRequest => MarksPersisted(state, stored))
    /\ [][MarkWritten => stored' = _save_state(state')]_vars

---------------------------------------------------------------------------
\* The record _load_state reads after the state st has been saved
SavedAndLoaded(st) == StorageLoad(_save_state(st))

\* C21: for every local-time offset, the record read back after a save has the
\* last_update_time, the entity keys and the hour marks of the state that was
\* saved, and a bucket _is_hour_archived recognises before the save is
\* recognised after the reload.
C21_SavedStateReadsBackTheSame ==
    LET back == SavedAndLoaded(state)
    IN  /\ back.last_update_time = state.last_update_time
        /\ Len(back.app_id_states) = Len(state.app_id_states)
        /\ \A i \in 1..Len(state.app_id_states) :
              /\ back.app_id_states[i].app_id = state.app_id_states[i].app_id
              /\ back.app_id_states[i].date_updates = state.app_id_states[i].date_updates
              /\ \A h \in HourBuckets :
                    _is_hour_archived(state.app_id_states[i], h)
                        => _is_hour_archived(back.app_id_states[i], h)

---------------------------------------------------------------------------
\* C22: the requests a pass has yielded hold no LOAD_ONE_HOUR request twice:
\* at most one load per source, application and hour.  (A request that fails
\* ends the pass, so every request before the last one yielded has succeeded.)
C22_NoDuplicateLoadInPass ==
    \A i \in 1..Len(trace) : \A m \in 1..Len(trace) :
        (trace[i].update_type = LOAD_ONE_HOUR /\ trace[i] = trace[m]) => i = m

---------------------------------------------------------------------------
\* The keys of the entities of a progress record
EntityKeys(st) == {st.app_id_states[i].app_id : i \in 1..Len(st.app_id_states)}
UniqueKeys(st) ==
    \A i \in 1..Len(st.app_id_states) : \A m \in 1..Len(st.app_id_states) :
        st.app_id_states[i].app_id = st.app_id_states[m].app_id => i = m
\* The step is the _load_state at the start of a pass
IsLoadState == gen.pc = "idle" /\ gen'.pc = "gate"

\* C23 as stated: the record holds at most one entity per key, and no step,
\* within a pass or from one pass to the next, removes an entity from it.
C23_EntitiesNeverRemoved ==
    /\ []UniqueKeys(state)
    /\ [][EntityKeys(state) \subseteq EntityKeys(state')]_vars

\* C23 as the code has it: the record in memory and the record in the State
\* Store hold at most one entity per key; a step creates at most one entity, and
\* only for a key that has none; within a pass no entity is removed, and no
\* step removes an entity from the State Store; the _load_state of the next
\* pass keeps exactly the entities of the State Store, so an entity created
\* since the last save is gone after it.
C23_SavedEntitiesNeverRemoved ==
    /\ [](UniqueKeys(state) /\ UniqueKeys(StorageLoad(stored)))
    /\ [][/\ ~IsLoadState => /\ EntityKeys(state) \subseteq EntityKeys(state')
                             /\ Len(state'.app_id_states) <= Len(state.app_id_states) + 1
          /\ IsLoadState => EntityKeys(state') = EntityKeys(StorageLoad(stored))
          /\ EntityKeys(StorageLoad(stored)) \subseteq EntityKeys(StorageLoad(stored'))]_vars

\* C23 witness: a later pass has reloaded a record with the hourly entity and
\* the profile entity of the application, and has looked both up again
C23_EntitiesKeptAcrossPasses ==
    /\ hist.passes >= 2
    /\ req.update_type = LOAD_PROFILES
    /\ EntityKeys(StorageLoad(stored)) = {<<"events", app_ids[1]>>, <<"profiles", app_ids[1]>>}
    /\ EntityKeys(state) = EntityKeys(StorageLoad(stored))
    /\ Len(state.app_id_states) = 2

---------------------------------------------------------------------------
\* C24: when _load_profiles returns after a call that found a latest table,
\* the latest table exists or the temp table exists, whichever storage step
\* failed: the call never ends with both tables absent.
C24_FailedSwapKeepsASnapshot ==
    (/\ lastSwap # None
     /\ lastSwap[1].before.latest # Absent)
        => (db.latest # Absent \/ db.tmp # Absent)

---------------------------------------------------------------------------
\* C25 is read on SpecSucceeding.  Nothing loads a bucket below hour_from, so
\* its mark stays what it is and _archive_old_hours archives it only when that
\* mark is fresh_limit or more past the bucket's last second.

\* C25: when every request succeeds (here in a process whose local time is
\* UTC), no bucket with an updated-at mark is left behind by the window with a
\* mark that _archive_old_hours takes for fresh: every marked bucket is
\* archived by a sweep at the latest once it has left the window.
C25_NoBucketLeftFreshBehindWindow ==
    (tz = 0 /\ gen.pc \notin {"idle", "gate"})
        => \A key \in HourKeys : \A h \in HourBuckets :
              (UpdatedAtIn(state, key, h) /\ h < HourFrom(gen.started_at))
                  => ~Fresh(MarkOf(state, key, h)[1], h)

====
